---- MODULE Spec2Model ----
(***************************************************************************)
(* Model of the google-workspace helper scripts: gmail.js, calendar.js and *)
(* sheets.js, each one process invocation `node <tool>.js <command> args`. *)
(* One behaviour is one invocation: the module is loaded (getAuth), the    *)
(* CLI switch dispatches, the handler issues its remote calls, awaits      *)
(* them, prints, and the process exits.  The remote service is the         *)
(* environment: every call may reject, and a call that resolves returns    *)
(* data from a small fake store.                                           *)
(***************************************************************************)
EXTENDS Integers, Sequences, FiniteSets, TLC

\* Longest argument list of an invocation.
MaxArgs == 3
\* Most references an enumeration call (messages.list, threads.list) returns.
MaxRefs == 3

VARIABLES
    tool,       \* which script runs: "gmail", "calendar" or "sheets"
    command,    \* process.argv[2], or Undefined when absent (`command`)
    args,       \* process.argv.slice(3) (`args`)
    env,        \* process.env: the three credential variables
    pc,         \* "load", "main", "await", "fanout" or "exited"
    cont,       \* the handler suspended at the current await
    calls,      \* every remote request issued, in issue order
    fulfilled,  \* indices (in calls) of the requests the service served
    rejected,   \* indices (in calls) of the requests that failed
    refs,       \* the enumeration a fan-out runs over
    pending,    \* indices of detail fetches not yet settled
    results,    \* index -> summary of the detail fetches that resolved
    stdout,     \* what console.log wrote
    stderr,     \* what console.error (or the uncaught-exception report) wrote
    exitCode,   \* the process exit status (meaningful once pc = "exited")
    store,      \* the remote calendar store
    input,      \* what create/update read from the file or from stdin
    reads,      \* the payload sources read, in order
    clock,      \* the local date `new Date()` returned to the time helpers
    held        \* values a handler keeps across an await

vars == <<tool, command, args, env, pc, cont, calls, fulfilled, rejected, refs,
          pending, results, stdout, stderr, exitCode, store, input, reads,
          clock, held>>

-----------------------------------------------------------------------------
(* JavaScript values *)

\* `undefined`: an absent argument, environment variable or object field.
Undefined == "undefined"

\* !x for a string or undefined.
Falsy(x) == x = Undefined \/ x = ""

\* A default parameter value applies only to undefined.
Default(x, d) == IF x = Undefined THEN d ELSE x

\* A field read that forgets the fallback value.
Mutant_FieldOrNoFallback(o, f, d) ==
    IF f \in DOMAIN o THEN o[f] ELSE Undefined

\* o.f || d for string fields of an object modelled as a function.
FieldOr(o, f, d) == IF f \in DOMAIN o /\ ~Falsy(o[f]) THEN o[f] ELSE d

\* o.f, undefined when absent.
Field(o, f) == IF f \in DOMAIN o THEN o[f] ELSE Undefined

\* Whether v is a primitive (a string, or undefined) and not an object: the
\* printed form of a string value starts with its quote.
Primitive(v) == SubSeq(ToString(v), 1, 1) = "\""

\* v?.f: undefined when v is undefined, and undefined as well when v is a
\* string, which has no property of these names.
Opt(v, f) == IF Primitive(v) THEN Undefined ELSE Field(v, f)

\* The empty object {}.
EmptyObj == [f \in {} |-> ""]

\* parseInt(s, 10) on the argument strings of the model, none of which starts
\* with a digit; the default count "10" parses to itself.
ParseInt(s) == IF s = "10" THEN "10" ELSE "NaN"

RECURSIVE JoinFrom(_, _)
JoinFrom(s, i) ==
    IF i > Len(s) THEN ""
    ELSE IF i = Len(s) THEN s[i]
    ELSE s[i] \o " " \o JoinFrom(s, i + 1)

\* args.join(' ')
Join(s) == JoinFrom(s, 1)

\* args.slice(1).join(' ')
JoinRest(s) == JoinFrom(s, 2)

-----------------------------------------------------------------------------
(* Inputs of an invocation *)

Tools == {"gmail", "calendar", "sheets"}

GmailCommands == {"list", "read", "search", "labels", "threads"}
CalendarCommands == {"list", "today", "week", "get", "search", "create",
                     "quick", "update", "calendars"}
SheetsCommands == {"files", "read", "info", "search"}

\* Command tokens tried on every tool: all recognized ones, two that no tool
\* knows, and the absent token.
Tokens == GmailCommands \cup CalendarCommands \cup SheetsCommands
              \cup {"delete", "help", Undefined}

\* Argument strings: the empty string, the stdin marker, and an opaque id that
\* names a message, a thread, an event, a calendar, a spreadsheet and a file.
ArgStrings == {"", "-", "id1"}

RECURSIVE SeqsUpTo(_, _)
SeqsUpTo(S, n) ==
    IF n = 0 THEN {<<>>}
    ELSE LET shorter == SeqsUpTo(S, n - 1)
         IN  shorter \cup {Append(s, x) : s \in {t \in shorter : Len(t) = n - 1}, x \in S}

ArgLists == SeqsUpTo(ArgStrings, MaxArgs)

\* a[i-1] of the source (TLA+ sequences start at 1), undefined past the end.
At(a, i) == IF i <= Len(a) THEN a[i] ELSE Undefined

Arg(i) == At(args, i)

CredentialValues == {Undefined, "", "tok"}
Environments == [GOOGLE_CLIENT_ID : CredentialValues,
                 GOOGLE_CLIENT_SECRET : CredentialValues,
                 GOOGLE_REFRESH_TOKEN : CredentialValues]

-----------------------------------------------------------------------------
(* Process plumbing shared by the three scripts *)

Frame == <<tool, command, args, env>>
Remote == <<store, input, reads, clock>>
FanOut == <<refs, pending, results, held>>
Settled == <<fulfilled, rejected>>

\* The awaited request (the last one issued) is served.
Fulfil ==
    /\ fulfilled' = fulfilled \cup {Len(calls)}
    /\ UNCHANGED rejected

\* A remote request is issued and the handler suspends on it.
Call(req, k) ==
    /\ calls' = Append(calls, req)
    /\ pc' = "await"
    /\ cont' = k
    /\ UNCHANGED <<stdout, stderr, exitCode>>

\* console.error(lines...) followed by process.exit(1).
Die(lines) ==
    /\ stderr' = stderr \o lines
    /\ exitCode' = 1
    /\ pc' = "exited"
    /\ UNCHANGED <<calls, cont, stdout>>

\* The catch handler of the CLI: console.error('Error:', err.message); exit(1).
Catch(message) == Die(<<"Error: " \o message>>)

\* console.log(items...), after which the async main returns and the process
\* ends with its default status.
PrintAndEnd(items) ==
    /\ stdout' = stdout \o items
    /\ pc' = "exited"
    /\ UNCHANGED <<calls, cont, stderr, exitCode>>

Text(s) == [kind |-> "text", data |-> s]
Json(v) == [kind |-> "json", data |-> v]

-----------------------------------------------------------------------------
(* gmail.js: helpers *)

\* s.replace(/-/g, '+').replace(/_/g, '/'), character by character.
RECURSIVE UrlToStd(_)
UrlToStd(s) ==
    IF Len(s) = 0 THEN ""
    ELSE LET c == SubSeq(s, 1, 1)
             d == IF c = "-" THEN "+" ELSE IF c = "_" THEN "/" ELSE c
         IN  d \o UrlToStd(SubSeq(s, 2, Len(s)))

\* A 2001-character text: one character more than the HTML rendering keeps.
Chunk16 == "<p>0123456789</p"
Chunk256 == Chunk16 \o Chunk16 \o Chunk16 \o Chunk16 \o Chunk16 \o Chunk16
            \o Chunk16 \o Chunk16 \o Chunk16 \o Chunk16 \o Chunk16 \o Chunk16
            \o Chunk16 \o Chunk16 \o Chunk16 \o Chunk16
LongHtml == Chunk256 \o Chunk256 \o Chunk256 \o Chunk256 \o Chunk256
            \o Chunk256 \o Chunk256 \o Chunk16 \o Chunk16 \o Chunk16
            \o Chunk16 \o Chunk16 \o Chunk16 \o Chunk16 \o Chunk16
            \o Chunk16 \o Chunk16 \o Chunk16 \o Chunk16 \o Chunk16 \o ">"

\* Buffer.from(std, 'base64').toString('utf8') on the encoded bodies of the
\* model: "plain", "<b>hi</b>" and the long HTML text (whose encoding is
\* abbreviated to a token).
Base64Decode(std) ==
    CASE std = "cGxhaW4" -> "plain"
      [] std = "PGI+aGk8L2I+" -> "<b>hi</b>"
      [] std = "PHA+/long" -> LongHtml
      [] OTHER -> ""

decodeBase64Url(str) ==
    IF Falsy(str) THEN "" ELSE Base64Decode(UrlToStd(str))

\* name.toLowerCase() on the header names of the model.
ToLowerCase(s) ==
    CASE s \in {"From", "FROM"} -> "from"
      [] s \in {"To", "TO"} -> "to"
      [] s \in {"Subject", "SUBJECT"} -> "subject"
      [] s \in {"Date", "DATE"} -> "date"
      [] OTHER -> s

\* (headers || []).find(h => h.name.toLowerCase() === name.toLowerCase()),
\* then its value or ''.
getHeader(headers, name) ==
    LET hits == {i \in 1..Len(headers) :
                    ToLowerCase(headers[i].name) = ToLowerCase(name)}
    IN  IF hits = {} THEN ""
        ELSE headers[CHOOSE i \in hits : \A j \in hits : i <= j].value

\* The length the HTML fallback is cut to.
HtmlLimit == 2000

\* s.substring(0, n)
Substring0(s, n) == IF Len(s) <= n THEN s ELSE SubSeq(s, 1, n)

\* payload.body?.data, undefined when the body or its data is absent.
BodyData(payload) ==
    IF "body" \in DOMAIN payload THEN Field(payload.body, "data") ELSE Undefined

RECURSIVE extractBody(_)
RECURSIVE FirstPartText(_, _)

\* The loop over payload.parts: the first part whose extractBody is truthy.
FirstPartText(parts, i) ==
    IF i > Len(parts) THEN ""
    ELSE LET text == extractBody(parts[i])
         IN  IF text # "" THEN text ELSE FirstPartText(parts, i + 1)

extractBody(payload) ==
    IF payload.mimeType = "text/plain" /\ ~Falsy(BodyData(payload))
    THEN decodeBase64Url(BodyData(payload))
    ELSE LET fromParts == IF "parts" \in DOMAIN payload
                          THEN FirstPartText(payload.parts, 1) ELSE ""
         IN  IF fromParts # "" THEN fromParts
             ELSE IF payload.mimeType = "text/html" /\ ~Falsy(BodyData(payload))
             THEN "[HTML] " \o Substring0(decodeBase64Url(BodyData(payload)), HtmlLimit)
             ELSE ""

\* msg.payload?.headers || []
HeadersOf(msg) ==
    IF "payload" \in DOMAIN msg /\ "headers" \in DOMAIN msg.payload
    THEN msg.payload.headers ELSE <<>>

\* extractBody(msg.payload) reads payload.mimeType: a TypeError when the
\* message has no payload.
formatMessageThrows(msg) == "payload" \notin DOMAIN msg

TypeErrorMessage == "Cannot read properties of undefined (reading 'mimeType')"

formatMessage(msg) ==
    LET headers == HeadersOf(msg)
    IN  [id |-> Field(msg, "id"),
         threadId |-> Field(msg, "threadId"),
         from |-> getHeader(headers, "From"),
         to |-> getHeader(headers, "To"),
         subject |-> getHeader(headers, "Subject"),
         date |-> getHeader(headers, "Date"),
         snippet |-> Field(msg, "snippet"),
         labels |-> Field(msg, "labelIds"),
         body |-> extractBody(msg.payload)]

-----------------------------------------------------------------------------
(* The remote mail service as the model sees it: a fake with two messages   *)
(* and two threads.  A request for an id the fake does not hold is rejected.*)

\* Most nodes (parts, nested parts included) of a message payload tree.
MaxNodes == 4

PlainLeaf == [mimeType |-> "text/plain", body |-> [data |-> "cGxhaW4"]]
EmptyPlainLeaf == [mimeType |-> "text/plain", body |-> [size |-> "0"]]
HtmlLeaf == [mimeType |-> "text/html", body |-> [data |-> "PGI-aGk8L2I-"]]
LongHtmlLeaf == [mimeType |-> "text/html", body |-> [data |-> "PHA-_long"]]
Leaves == {PlainLeaf, EmptyPlainLeaf, HtmlLeaf, LongHtmlLeaf}

Multipart(ps) == [mimeType |-> "multipart/alternative", parts |-> ps]

RECURSIVE TreesOfSize(_)
RECURSIVE ForestsOfSize(_)

\* Sequences of trees with k nodes in all.
ForestsOfSize(k) ==
    IF k = 0 THEN {<<>>}
    ELSE UNION {{<<t>> \o f : t \in TreesOfSize(j), f \in ForestsOfSize(k - j)}
                : j \in 1..k}

TreesOfSize(n) ==
    IF n = 1 THEN Leaves \cup {Multipart(<<>>)}
    ELSE {Multipart(ps) : ps \in ForestsOfSize(n - 1)}

PayloadTrees == UNION {TreesOfSize(n) : n \in 1..MaxNodes}

Headers1 == <<[name |-> "From", value |-> "alice@example.com"],
              [name |-> "To", value |-> "me@example.com"],
              [name |-> "Subject", value |-> "Invoice"],
              [name |-> "Date", value |-> "Mon, 9 Feb 2026"]>>
Headers2 == <<[name |-> "SUBJECT", value |-> "Standup"],
              [name |-> "from", value |-> "bob@example.com"]>>

\* messages.get with format 'metadata': the stored message, no body.
MailBox ==
    ("id1" :> [id |-> "id1", threadId |-> "t1", snippet |-> "Please find",
               labelIds |-> <<"INBOX">>, historyId |-> "77",
               payload |-> [mimeType |-> "text/plain", headers |-> Headers1]])
 @@ ("m2" :> [id |-> "m2", threadId |-> "t2", snippet |-> "Daily sync",
              labelIds |-> <<"INBOX", "UNREAD">>, historyId |-> "78",
              payload |-> [mimeType |-> "text/html", headers |-> Headers2]])

\* messages.get with format 'full': the stored message with a payload tree.
FullMessages(id) ==
    {[MailBox[id] EXCEPT !.payload = t @@ [headers |-> MailBox[id].payload.headers]]
        : t \in PayloadTrees}

ThreadBox ==
    ("id1" :> [id |-> "id1", historyId |-> "77",
               messages |-> <<MailBox["id1"], MailBox["m2"]>>])
 @@ ("t2" :> [id |-> "t2", historyId |-> "78"])

MsgRefs == {[id |-> "id1", threadId |-> "t1"], [id |-> "m2", threadId |-> "t2"]}
ThreadRefs == {[id |-> "id1", snippet |-> "Please find"],
               [id |-> "t2", snippet |-> ""]}

\* What messages.list may return: the references, or no `messages` field.
MessageListings ==
    {[resultSizeEstimate |-> "0"]}
    \cup {[messages |-> s, nextPageToken |-> "p2"] : s \in SeqsUpTo(MsgRefs, MaxRefs)}

ThreadListings ==
    {[resultSizeEstimate |-> "0"]}
    \cup {[threads |-> s, nextPageToken |-> "p2"] : s \in SeqsUpTo(ThreadRefs, MaxRefs)}

LabelListing ==
    [labels |-> <<[id |-> "INBOX", name |-> "INBOX", type |-> "system",
                   messageListVisibility |-> "show"],
                  [id |-> "Label_1", name |-> "Work", type |-> "user",
                   messageListVisibility |-> "show"]>>]

-----------------------------------------------------------------------------
(* gmail.js: commands *)

\* The parameters of gmail.users.messages.list / threads.list: q only when the
\* query is truthy.
ListParams(maxResults, query) ==
    IF Falsy(query)
    THEN [userId |-> "me", maxResults |-> ParseInt(maxResults)]
    ELSE [userId |-> "me", maxResults |-> ParseInt(maxResults), q |-> query]

\* listMessages(maxResults = 10, query = ''): the enumeration request.
listMessagesRequest(maxResults, query) ==
    [method |-> "gmail.users.messages.list",
     params |-> ListParams(Default(maxResults, "10"), Default(query, ""))]

\* The per-message detail request of listMessages.
messageDetailRequest(m) ==
    [method |-> "gmail.users.messages.get",
     params |-> [userId |-> "me", id |-> m.id, format |-> "metadata",
                 metadataHeaders |-> <<"From", "Subject", "Date">>]]

\* The summary listMessages builds from a reference and its detail response.
messageSummary(m, full) ==
    LET headers == HeadersOf(full)
    IN  [id |-> m.id,
         from |-> getHeader(headers, "From"),
         subject |-> getHeader(headers, "Subject"),
         date |-> getHeader(headers, "Date"),
         snippet |-> Field(full, "snippet")]

readMessageRequest(messageId) ==
    [method |-> "gmail.users.messages.get",
     params |-> [userId |-> "me", id |-> messageId, format |-> "full"]]

listLabelsRequest ==
    [method |-> "gmail.users.labels.list", params |-> [userId |-> "me"]]

\* (res.data.labels || []).map(l => ({id, name, type}))
labelRows(data) ==
    LET labels == IF "labels" \in DOMAIN data THEN data.labels ELSE <<>>
    IN  [i \in 1..Len(labels) |->
            [id |-> labels[i].id, name |-> labels[i].name, type |-> labels[i].type]]

\* listThreads(query, maxResults = 10): the enumeration request.
listThreadsRequest(query, maxResults) ==
    [method |-> "gmail.users.threads.list",
     params |-> ListParams(Default(maxResults, "10"), query)]

threadDetailRequest(t) ==
    [method |-> "gmail.users.threads.get",
     params |-> [userId |-> "me", id |-> t.id, format |-> "metadata",
                 metadataHeaders |-> <<"From", "Subject", "Date">>]]

\* The summary listThreads builds from a reference and its detail response.
threadSummary(t, full) ==
    LET messages == IF "messages" \in DOMAIN full THEN full.messages ELSE <<>>
        headers == IF Len(messages) > 0 THEN HeadersOf(messages[1]) ELSE <<>>
    IN  [threadId |-> t.id,
         messageCount |-> Len(messages),
         from |-> getHeader(headers, "From"),
         subject |-> getHeader(headers, "Subject"),
         date |-> getHeader(headers, "Date"),
         snippet |-> IF Len(messages) > 0 THEN Field(messages[1], "snippet")
                     ELSE Undefined]

GmailHelp ==
    <<"Gmail Helper - Read Only",
      "Commands: list, read, search, labels, threads",
      "Examples:",
      "  node gmail.js list 5",
      "  node gmail.js read 18dc1234abcd",
      "  node gmail.js search \"from:boss@company.com\" 10",
      "  node gmail.js labels",
      "  node gmail.js threads \"subject:meeting\" 5">>

\* A default case that prints the usage listing and forgets process.exit(1).
Mutant_gmailDefaultNoExit ==
    /\ stderr' = stderr \o GmailHelp
    /\ pc' = "exited"
    /\ UNCHANGED <<calls, cont, stdout, exitCode>>

\* The default case of the gmail switch.
gmailDefault == Die(GmailHelp)

\* The switch of the gmail CLI, up to the first await of the chosen handler.
GmailMain ==
    /\ pc = "main" /\ tool = "gmail"
    /\ \/ /\ command = "list"
          /\ Call(listMessagesRequest(Arg(1), JoinRest(args)), "listMessages")
       \/ /\ command = "read"
          /\ IF Falsy(Arg(1))
             THEN Die(<<"Usage: gmail.js read <messageId>">>)
             ELSE Call(readMessageRequest(Arg(1)), "readMessage")
       \/ /\ command = "search"
          /\ IF Falsy(Arg(1))
             THEN Die(<<"Usage: gmail.js search <query> [maxResults]">>)
             ELSE Call(listMessagesRequest(Default(Arg(2), "10"), Arg(1)),
                       "listMessages")
       \/ /\ command = "labels"
          /\ Call(listLabelsRequest, "listLabels")
       \/ /\ command = "threads"
          /\ Call(listThreadsRequest(Arg(1), Arg(2)), "listThreads")
       \/ /\ command \notin GmailCommands
          /\ gmailDefault
    /\ UNCHANGED <<Frame, Remote, FanOut, Settled>>

\* An aggregation that keeps the values in the order the promises settled in.
Mutant_PromiseAllCompletionOrder(settled, n) ==
    [i \in 1..n |-> settled[i].value]

\* Promise.all: the array of the fulfilled values, each at the index of its
\* promise, whatever the order the promises settled in.
PromiseAll(settled, n) ==
    [i \in 1..n |->
        settled[CHOOSE k \in 1..Len(settled) : settled[k].index = i].value]

\* A fan-out that issues the first detail request only and leaves the others
\* for later.
Mutant_StartFanOutOneByOne(items, requests) ==
    /\ calls' = Append(calls, requests[1])
    /\ refs' = items
    /\ pending' = 1..Len(items)
    /\ results' = <<>>
    /\ pc' = "fanout"
    /\ UNCHANGED <<cont, stdout, stderr, exitCode, held>>

\* What Promise.all(items.map(async ...)) does when it is called: every mapper
\* runs up to its await, so the n detail requests are issued, in order.
StartFanOut(items, requests) ==
    /\ calls' = calls \o requests
    /\ refs' = items
    /\ pending' = 1..Len(items)
    /\ results' = <<>>
    /\ pc' = "fanout"
    /\ UNCHANGED <<cont, stdout, stderr, exitCode, held>>

\* A listMessages that prints the empty array when nothing was enumerated.
Mutant_listMessagesResumeEmptyArray(data) ==
    LET messages == IF "messages" \in DOMAIN data THEN data.messages ELSE <<>>
    IN  IF Len(messages) = 0
        THEN PrintAndEnd(<<Json(<<>>)>>) /\ UNCHANGED FanOut
        ELSE StartFanOut(messages,
                 [i \in 1..Len(messages) |-> messageDetailRequest(messages[i])])

\* listMessages after messages.list resolved with `data`.
listMessagesResume(data) ==
    LET messages == IF "messages" \in DOMAIN data THEN data.messages ELSE <<>>
    IN  IF Len(messages) = 0
        THEN PrintAndEnd(<<Text("No messages found.")>>) /\ UNCHANGED FanOut
        ELSE StartFanOut(messages,
                 [i \in 1..Len(messages) |-> messageDetailRequest(messages[i])])

\* listThreads after threads.list resolved with `data`.
listThreadsResume(data) ==
    LET threads == IF "threads" \in DOMAIN data THEN data.threads ELSE <<>>
    IN  IF Len(threads) = 0
        THEN PrintAndEnd(<<Text("No threads found.")>>) /\ UNCHANGED FanOut
        ELSE StartFanOut(threads,
                 [i \in 1..Len(threads) |-> threadDetailRequest(threads[i])])

\* The request the handler is suspended on.
LastCall == calls[Len(calls)]

\* The awaited call of a gmail handler resolves and the handler runs on.
GmailResolve ==
    /\ pc = "await" /\ tool = "gmail"
    /\ Fulfil
    /\ \/ /\ cont = "listMessages"
          /\ \E data \in MessageListings : listMessagesResume(data)
       \/ /\ cont = "readMessage"
          /\ LastCall.params.id \in DOMAIN MailBox
          /\ \E msg \in FullMessages(LastCall.params.id) :
                /\ held' = msg
                /\ IF formatMessageThrows(msg)
                   THEN Catch(TypeErrorMessage)
                   ELSE PrintAndEnd(<<Json(formatMessage(msg))>>)
          /\ UNCHANGED <<refs, pending, results>>
       \/ /\ cont = "listLabels"
          /\ PrintAndEnd(<<Json(labelRows(LabelListing))>>)
          /\ UNCHANGED FanOut
       \/ /\ cont = "listThreads"
          /\ \E data \in ThreadListings : listThreadsResume(data)
    /\ UNCHANGED <<Frame, Remote>>

\* The index in calls of the i-th detail request of the fan-out.
DetailCall(i) == Len(calls) - Len(refs) + i

\* The summary the i-th mapper returns once its detail fetch resolved.
DetailSummary(i) ==
    IF cont = "listMessages"
    THEN messageSummary(refs[i], MailBox[refs[i].id])
    ELSE threadSummary(refs[i], ThreadBox[refs[i].id])

\* One detail fetch resolves; when it was the last one pending, Promise.all
\* fulfils and the handler prints the summaries.
DetailResolve ==
    /\ pc = "fanout"
    /\ \E i \in pending :
          LET settled == Append(results, [index |-> i, value |-> DetailSummary(i)])
          IN  /\ results' = settled
              /\ pending' = pending \ {i}
              /\ fulfilled' = fulfilled \cup {DetailCall(i)}
              /\ IF pending \ {i} = {}
                 THEN PrintAndEnd(<<Json(PromiseAll(settled, Len(refs)))>>)
                 ELSE UNCHANGED <<pc, cont, calls, stdout, stderr, exitCode>>
    /\ UNCHANGED <<Frame, Remote, refs, held, rejected>>

\* A failure handling that prints the summaries fetched so far before the
\* error message.
Mutant_DetailRejectPartial ==
    /\ pc = "fanout"
    /\ \E i \in pending :
          /\ pending' = pending \ {i}
          /\ rejected' = rejected \cup {DetailCall(i)}
          /\ stdout' = stdout \o <<Json([k \in 1..Len(results) |-> results[k].value])>>
          /\ stderr' = stderr \o <<"Error: detail fetch failed">>
          /\ exitCode' = 1
          /\ pc' = "exited"
          /\ UNCHANGED <<calls, cont>>
    /\ UNCHANGED <<Frame, Remote, refs, results, held, fulfilled>>

\* One detail fetch rejects: Promise.all rejects, the CLI's catch handler runs.
DetailReject ==
    /\ pc = "fanout"
    /\ \E i \in pending :
          /\ pending' = pending \ {i}
          /\ rejected' = rejected \cup {DetailCall(i)}
          /\ Catch("detail fetch failed")
    /\ UNCHANGED <<Frame, Remote, refs, results, held, fulfilled>>

-----------------------------------------------------------------------------
(* calendar.js: helpers *)

\* An instant selection that looks at the all-day date first.
Mutant_InstantOfDateFirst(ev, f) ==
    LET o == Field(ev, f)
    IN  IF ~Falsy(Opt(o, "date")) THEN Opt(o, "date")
        ELSE IF ~Falsy(Opt(o, "dateTime")) THEN Opt(o, "dateTime")
        ELSE ""

\* ev.start?.dateTime || ev.start?.date || '' (and likewise for end).
InstantOf(ev, f) ==
    LET o == Field(ev, f)
    IN  IF ~Falsy(Opt(o, "dateTime")) THEN Opt(o, "dateTime")
        ELSE IF ~Falsy(Opt(o, "date")) THEN Opt(o, "date")
        ELSE ""

\* (ev.attendees || []).map(a => ({email, responseStatus}))
AttendeesOf(ev) ==
    LET as == IF "attendees" \in DOMAIN ev THEN ev.attendees ELSE <<>>
    IN  [i \in 1..Len(as) |->
            [email |-> Field(as[i], "email"),
             responseStatus |-> Field(as[i], "responseStatus")]]

formatEvent(ev) ==
    [id |-> Field(ev, "id"),
     summary |-> Field(ev, "summary"),
     description |-> FieldOr(ev, "description", ""),
     location |-> FieldOr(ev, "location", ""),
     start |-> InstantOf(ev, "start"),
     end |-> InstantOf(ev, "end"),
     status |-> Field(ev, "status"),
     htmlLink |-> Field(ev, "htmlLink"),
     creator |-> Opt(Field(ev, "creator"), "email"),
     attendees |-> AttendeesOf(ev),
     hangoutLink |-> FieldOr(ev, "hangoutLink", ""),
     recurringEventId |-> FieldOr(ev, "recurringEventId", "")]

\* (res.data.items || []).map(formatEvent)
formatEvents(data) ==
    LET items == IF "items" \in DOMAIN data THEN data.items ELSE <<>>
    IN  [i \in 1..Len(items) |-> formatEvent(items[i])]

(* Local calendar dates, as the Date object keeps them. *)

IsLeap(y) == (y % 4 = 0 /\ y % 100 # 0) \/ y % 400 = 0

DaysInMonth(y, m) ==
    IF m = 2 THEN (IF IsLeap(y) THEN 29 ELSE 28)
    ELSE IF m \in {4, 6, 9, 11} THEN 30 ELSE 31

\* Days from 1 January 2026, a Thursday, to the date (years from 2026 on).
RECURSIVE DaysBefore(_, _)
DaysBefore(y, m) ==
    IF m > 1 THEN DaysInMonth(y, m - 1) + DaysBefore(y, m - 1)
    ELSE IF y > 2026 THEN DaysInMonth(y - 1, 12) + DaysBefore(y - 1, 12)
    ELSE 0

\* d.getDay(): 0 is Sunday, 6 is Saturday.
getDay(d) == (4 + DaysBefore(d.year, d.month) + d.day - 1) % 7

\* d.getDate()
getDate(d) == d.day

\* d.setDate(n) for n >= 1: days past the end of the month roll over into the
\* following months.
RECURSIVE setDate(_, _)
setDate(d, n) ==
    IF n <= DaysInMonth(d.year, d.month) THEN [d EXCEPT !.day = n]
    ELSE setDate([year |-> IF d.month = 12 THEN d.year + 1 ELSE d.year,
                  month |-> IF d.month = 12 THEN 1 ELSE d.month + 1,
                  day |-> 1],
                 n - DaysInMonth(d.year, d.month))

\* An instant: a local date and a time of day (toISOString renders it in UTC).
Instant(d, t) == [date |-> d, time |-> t]

\* new Date().toISOString()
nowInstant(d) == Instant(d, "now")

startOfDay(d) == Instant(d, "00:00:00.000")

endOfDay(d) == Instant(d, "23:59:59.999")

endOfWeek(d) == Instant(setDate(d, getDate(d) + (7 - getDay(d))), "23:59:59.999")

\* The dates the clock may show: two full weeks of February 2026 (the second
\* one ends the month) and the last days of the year.
Clocks ==
    {[year |-> 2026, month |-> 2, day |-> n] : n \in 15..28}
    \cup {[year |-> 2026, month |-> 12, day |-> n] : n \in 27..31}

NoClock == [year |-> 0, month |-> 0, day |-> 0]

-----------------------------------------------------------------------------
(* The remote calendar service as the model sees it: a fake store of two    *)
(* calendars.  A request naming a calendar or an event the store does not   *)
(* hold is rejected.                                                        *)

Event1 ==
    [id |-> "id1", kind |-> "calendar#event", etag |-> "e-1",
     summary |-> "Team Standup", description |-> "Daily sync",
     location |-> "Zoom",
     start |-> [dateTime |-> "2026-02-10T09:00:00-08:00", timeZone |-> "PST"],
     end |-> [dateTime |-> "2026-02-10T09:30:00-08:00", timeZone |-> "PST"],
     status |-> "confirmed", htmlLink |-> "https://cal/id1",
     creator |-> [email |-> "me@example.com", self |-> "true"],
     attendees |-> <<[email |-> "bob@example.com", responseStatus |-> "accepted",
                      displayName |-> "Bob"]>>,
     hangoutLink |-> "https://meet/abc"]

Event2 ==
    [id |-> "ev2", kind |-> "calendar#event", etag |-> "e-2",
     summary |-> "Holiday",
     start |-> [date |-> "2026-02-16"], end |-> [date |-> "2026-02-17"],
     status |-> "confirmed", htmlLink |-> "https://cal/ev2"]

Event3 ==
    [id |-> "id1", kind |-> "calendar#event", etag |-> "e-3",
     summary |-> "Review", location |-> "Room 4",
     start |-> [dateTime |-> "2026-02-11T14:00:00-08:00"],
     end |-> [dateTime |-> "2026-02-11T15:00:00-08:00"],
     status |-> "tentative", htmlLink |-> "https://cal/w1",
     recurringEventId |-> "series9"]

InitialStore == ("primary" :> <<Event1, Event2>>) @@ ("id1" :> <<Event3>>)

\* Position of the event with this id in a calendar of the store, 0 if none.
IndexOf(events, eventId) ==
    IF \E i \in 1..Len(events) : events[i].id = eventId
    THEN CHOOSE i \in 1..Len(events) : events[i].id = eventId
    ELSE 0

CalendarListing ==
    [items |-> <<[id |-> "primary", summary |-> "Me", primary |-> TRUE,
                  accessRole |-> "owner", timeZone |-> "America/Los_Angeles",
                  etag |-> "c-1"],
                 [id |-> "id1", summary |-> "Work", accessRole |-> "writer",
                  timeZone |-> "Europe/Paris", etag |-> "c-2"]>>]

\* The top-level fields a payload of the model may set.
PayloadFields == {"summary", "location"}
PayloadValue(f) == IF f = "summary" THEN "X" ELSE "Room 9"

\* The parsed payloads create/update may read: every choice of fields.
Payloads == {[f \in fs |-> PayloadValue(f)] : fs \in SUBSET PayloadFields}

\* What the payload source may hold: a JSON object, or text that is no JSON.
\* A file may also be missing.
Contents(source) ==
    {[kind |-> "json", json |-> p] : p \in Payloads}
    \cup {[kind |-> "malformed", json |-> EmptyObj]}
    \cup (IF source = "stdin" THEN {} ELSE {[kind |-> "missing", json |-> EmptyObj]})

NoInput == [kind |-> "none", json |-> EmptyObj]

\* Whether the store can serve the request (else the service answers 404).
Servable(st, req) ==
    CASE req.method = "calendar.calendarList.list" -> TRUE
      [] req.method \in {"calendar.events.list", "calendar.events.insert",
                         "calendar.events.quickAdd"} ->
            req.params.calendarId \in DOMAIN st
      [] OTHER ->
            /\ req.params.calendarId \in DOMAIN st
            /\ IndexOf(st[req.params.calendarId], req.params.eventId) # 0

\* The event a request leaves at (or adds to) the store; a patch merges the
\* body into the stored event, top-level field by top-level field.
Written(st, req) ==
    LET cal == st[req.params.calendarId]
    IN  CASE req.method = "calendar.events.insert" ->
                req.params.requestBody
                    @@ [id |-> "new1", status |-> "confirmed",
                        htmlLink |-> "https://cal/new1"]
          [] req.method = "calendar.events.quickAdd" ->
                [id |-> "new1", status |-> "confirmed", summary |-> req.params.text,
                 htmlLink |-> "https://cal/new1"]
          [] req.method = "calendar.events.patch" ->
                req.params.requestBody
                    @@ cal[IndexOf(cal, req.params.eventId)]
          [] req.method = "calendar.events.update" ->
                req.params.requestBody @@ [id |-> req.params.eventId]

\* The store after the service served the request.
StoreAfter(st, req) ==
    LET c == req.params.calendarId
    IN  CASE req.method \in {"calendar.events.insert", "calendar.events.quickAdd"} ->
                [st EXCEPT ![c] = Append(@, Written(st, req))]
          [] req.method \in {"calendar.events.patch", "calendar.events.update"} ->
                [st EXCEPT ![c][IndexOf(st[c], req.params.eventId)] = Written(st, req)]
          [] req.method = "calendar.events.delete" ->
                [st EXCEPT ![c] = SelectSeq(@, LAMBDA e : e.id # req.params.eventId)]
          [] OTHER -> st

\* res.data of a served request.
ResponseData(st, req) ==
    CASE req.method = "calendar.calendarList.list" -> CalendarListing
      [] req.method = "calendar.events.list" ->
            [items |-> st[req.params.calendarId], nextSyncToken |-> "s1"]
      [] req.method = "calendar.events.get" ->
            st[req.params.calendarId]
              [IndexOf(st[req.params.calendarId], req.params.eventId)]
      [] req.method = "calendar.events.delete" -> EmptyObj
      [] OTHER -> Written(st, req)

-----------------------------------------------------------------------------
(* calendar.js: commands *)

listEventsRequest(maxResults, calendarId, now) ==
    [method |-> "calendar.events.list",
     params |-> [calendarId |-> Default(calendarId, "primary"),
                 maxResults |-> ParseInt(Default(maxResults, "10")),
                 timeMin |-> nowInstant(now),
                 singleEvents |-> TRUE, orderBy |-> "startTime"]]

todayEventsRequest(calendarId, now) ==
    [method |-> "calendar.events.list",
     params |-> [calendarId |-> Default(calendarId, "primary"),
                 timeMin |-> startOfDay(now), timeMax |-> endOfDay(now),
                 singleEvents |-> TRUE, orderBy |-> "startTime"]]

weekEventsRequest(calendarId, now) ==
    [method |-> "calendar.events.list",
     params |-> [calendarId |-> Default(calendarId, "primary"),
                 timeMin |-> startOfDay(now), timeMax |-> endOfWeek(now),
                 singleEvents |-> TRUE, orderBy |-> "startTime"]]

getEventRequest(eventId, calendarId) ==
    [method |-> "calendar.events.get",
     params |-> [calendarId |-> Default(calendarId, "primary"),
                 eventId |-> eventId]]

searchEventsRequest(query, maxResults, calendarId, now) ==
    [method |-> "calendar.events.list",
     params |-> [calendarId |-> Default(calendarId, "primary"),
                 q |-> query,
                 maxResults |-> ParseInt(Default(maxResults, "10")),
                 timeMin |-> nowInstant(now),
                 singleEvents |-> TRUE, orderBy |-> "startTime"]]

createEventRequest(eventData, calendarId) ==
    [method |-> "calendar.events.insert",
     params |-> [calendarId |-> Default(calendarId, "primary"),
                 requestBody |-> eventData, sendUpdates |-> "all"]]

quickAddRequest(text, calendarId) ==
    [method |-> "calendar.events.quickAdd",
     params |-> [calendarId |-> Default(calendarId, "primary"), text |-> text]]

\* An update that asks the service to replace the event by the payload.
Mutant_updateEventRequestReplace(eventId, patchData, calendarId) ==
    [method |-> "calendar.events.update",
     params |-> [calendarId |-> Default(calendarId, "primary"),
                 eventId |-> eventId,
                 requestBody |-> patchData, sendUpdates |-> "all"]]

updateEventRequest(eventId, patchData, calendarId) ==
    [method |-> "calendar.events.patch",
     params |-> [calendarId |-> Default(calendarId, "primary"),
                 eventId |-> eventId,
                 requestBody |-> patchData, sendUpdates |-> "all"]]

listCalendarsRequest ==
    [method |-> "calendar.calendarList.list", params |-> EmptyObj]

\* (res.data.items || []).map(c => ({id, summary, primary, accessRole, timeZone}))
calendarRows(data) ==
    LET items == IF "items" \in DOMAIN data THEN data.items ELSE <<>>
    IN  [i \in 1..Len(items) |->
            [id |-> items[i].id, summary |-> items[i].summary,
             primary |-> IF "primary" \in DOMAIN items[i] THEN items[i].primary
                         ELSE FALSE,
             accessRole |-> items[i].accessRole, timeZone |-> items[i].timeZone]]

\* Where createEvent/updateEvent read the payload from.
PayloadSource(jsonPath) == IF jsonPath = "-" THEN "stdin" ELSE "file"

\* The message of what JSON.parse or readFileSync threw.
PayloadError(content) ==
    IF content.kind = "malformed" THEN "Unexpected token in JSON"
    ELSE "ENOENT: no such file or directory"

\* createEvent up to its await: the payload is read (from stdin for '-', else
\* from the file) and parsed, which may throw into the CLI's catch handler;
\* then the insert request is issued.
createEvent(jsonPath, calendarId) ==
    \E content \in Contents(PayloadSource(jsonPath)) :
        /\ reads' = Append(reads, PayloadSource(jsonPath))
        /\ input' = content
        /\ IF content.kind = "json"
           THEN Call(createEventRequest(content.json, calendarId), "createEvent")
           ELSE Catch(PayloadError(content))

\* An updateEvent that falls back to an empty patch when the payload does not
\* parse.
Mutant_updateEventLenient(eventId, jsonPath, calendarId) ==
    \E content \in Contents(PayloadSource(jsonPath)) :
        /\ reads' = Append(reads, PayloadSource(jsonPath))
        /\ input' = content
        /\ IF content.kind = "missing"
           THEN Catch(PayloadError(content))
           ELSE Call(updateEventRequest(eventId, content.json, calendarId),
                     "updateEvent")

\* updateEvent up to its await, likewise, with the patch request.
updateEvent(eventId, jsonPath, calendarId) ==
    \E content \in Contents(PayloadSource(jsonPath)) :
        /\ reads' = Append(reads, PayloadSource(jsonPath))
        /\ input' = content
        /\ IF content.kind = "json"
           THEN Call(updateEventRequest(eventId, content.json, calendarId),
                     "updateEvent")
           ELSE Catch(PayloadError(content))

CalendarHelp ==
    <<"Calendar Helper - Read + Write (No Delete)",
      "Commands: list, today, week, get, search, create, quick, update, calendars",
      "Examples:",
      "  node calendar.js today",
      "  node calendar.js week",
      "  node calendar.js list 20",
      "  node calendar.js search \"standup\" 5",
      "  node calendar.js quick \"Lunch with Alice tomorrow at noon\"",
      "  node calendar.js create event.json",
      "  node calendar.js update abc123 patch.json",
      "  node calendar.js calendars">>

\* A default case that first serves a `delete <eventId> [calendarId]` command.
Mutant_calendarDefaultDelete ==
    /\ IF command = "delete" /\ ~Falsy(Arg(1))
       THEN Call([method |-> "calendar.events.delete",
                  params |-> [calendarId |-> Default(Arg(2), "primary"),
                              eventId |-> Arg(1)]], "deleteEvent")
       ELSE Die(CalendarHelp)
    /\ UNCHANGED <<input, reads, clock>>

\* The default case of the calendar switch.
calendarDefault == Die(CalendarHelp) /\ UNCHANGED <<input, reads, clock>>

\* The switch of the calendar CLI, up to the first await of the chosen handler.
CalendarMain ==
    /\ pc = "main" /\ tool = "calendar"
    /\ \/ /\ command = "list"
          /\ \E now \in Clocks :
                /\ clock' = now
                /\ Call(listEventsRequest(Arg(1), Arg(2), now), "listEvents")
          /\ UNCHANGED <<input, reads>>
       \/ /\ command = "today"
          /\ \E now \in Clocks :
                /\ clock' = now
                /\ Call(todayEventsRequest(Arg(1), now), "todayEvents")
          /\ UNCHANGED <<input, reads>>
       \/ /\ command = "week"
          /\ \E now \in Clocks :
                /\ clock' = now
                /\ Call(weekEventsRequest(Arg(1), now), "weekEvents")
          /\ UNCHANGED <<input, reads>>
       \/ /\ command = "get"
          /\ IF Falsy(Arg(1))
             THEN Die(<<"Usage: calendar.js get <eventId> [calendarId]">>)
             ELSE Call(getEventRequest(Arg(1), Arg(2)), "getEvent")
          /\ UNCHANGED <<input, reads, clock>>
       \/ /\ command = "search"
          /\ IF Falsy(Arg(1))
             THEN /\ Die(<<"Usage: calendar.js search <query> [maxResults] [calendarId]">>)
                  /\ UNCHANGED clock
             ELSE \E now \in Clocks :
                     /\ clock' = now
                     /\ Call(searchEventsRequest(Arg(1), Arg(2), Arg(3), now),
                             "searchEvents")
          /\ UNCHANGED <<input, reads>>
       \/ /\ command = "create"
          /\ IF Falsy(Arg(1))
             THEN /\ Die(<<"Usage: calendar.js create <jsonFile|-> [calendarId]">>)
                  /\ UNCHANGED <<input, reads>>
             ELSE createEvent(Arg(1), Arg(2))
          /\ UNCHANGED clock
       \/ /\ command = "quick"
          /\ IF Falsy(Arg(1))
             THEN Die(<<"Usage: calendar.js quick \"<text>\" [calendarId]">>)
             ELSE Call(quickAddRequest(Join(args), Undefined), "quickAdd")
          /\ UNCHANGED <<input, reads, clock>>
       \/ /\ command = "update"
          /\ IF Falsy(Arg(1)) \/ Falsy(Arg(2))
             THEN /\ Die(<<"Usage: calendar.js update <eventId> <jsonFile|-> [calendarId]">>)
                  /\ UNCHANGED <<input, reads>>
             ELSE updateEvent(Arg(1), Arg(2), Arg(3))
          /\ UNCHANGED clock
       \/ /\ command = "calendars"
          /\ Call(listCalendarsRequest, "listCalendars")
          /\ UNCHANGED <<input, reads, clock>>
       \/ /\ command \notin CalendarCommands
          /\ calendarDefault
    /\ UNCHANGED <<Frame, store, FanOut, Settled>>

\* The awaited call of a calendar handler resolves: the service serves the
\* request and the handler prints the result.
CalendarResolve ==
    /\ pc = "await" /\ tool = "calendar"
    /\ Servable(store, LastCall)
    /\ Fulfil
    /\ store' = StoreAfter(store, LastCall)
    /\ LET data == ResponseData(store, LastCall)
       IN  \/ /\ cont \in {"listEvents", "todayEvents", "weekEvents", "searchEvents"}
              /\ PrintAndEnd(<<Json(formatEvents(data))>>)
           \/ /\ cont = "getEvent"
              /\ PrintAndEnd(<<Json(formatEvent(data))>>)
           \/ /\ cont \in {"createEvent", "quickAdd"}
              /\ PrintAndEnd(<<Text("Event created:"), Json(formatEvent(data))>>)
           \/ /\ cont = "updateEvent"
              /\ PrintAndEnd(<<Text("Event updated:"), Json(formatEvent(data))>>)
           \/ /\ cont = "listCalendars"
              /\ PrintAndEnd(<<Json(calendarRows(data))>>)
    /\ UNCHANGED <<Frame, FanOut, input, reads, clock>>

-----------------------------------------------------------------------------
(* sheets.js: the Drive and Sheets helper *)

\* query.replace(/'/g, "\\'"), character by character.
RECURSIVE EscapeQuotes(_)
EscapeQuotes(s) ==
    IF Len(s) = 0 THEN ""
    ELSE LET c == SubSeq(s, 1, 1)
         IN  (IF c = "'" THEN "\\'" ELSE c) \o EscapeQuotes(SubSeq(s, 2, Len(s)))

FileFields == "files(id, name, mimeType, modifiedTime, webViewLink, owners)"

listFilesRequest(maxResults, query) ==
    [method |-> "drive.files.list",
     params |-> [pageSize |-> ParseInt(Default(maxResults, "10")),
                 fields |-> FileFields,
                 orderBy |-> "modifiedTime desc",
                 q |-> IF Falsy(Default(query, ""))
                       THEN "trashed = false"
                       ELSE "trashed = false and (name contains '"
                            \o EscapeQuotes(query) \o "')"]]

searchFilesRequest(query, maxResults) ==
    [method |-> "drive.files.list",
     params |-> [pageSize |-> ParseInt(Default(maxResults, "10")),
                 fields |-> FileFields,
                 q |-> "trashed = false and (name contains '" \o EscapeQuotes(query)
                       \o "' or fullText contains '" \o EscapeQuotes(query) \o "')",
                 orderBy |-> "modifiedTime desc"]]

valuesRequest(spreadsheetId, range) ==
    [method |-> "sheets.spreadsheets.values.get",
     params |-> [spreadsheetId |-> spreadsheetId, range |-> range]]

spreadsheetRequest(spreadsheetId) ==
    [method |-> "sheets.spreadsheets.get",
     params |-> [spreadsheetId |-> spreadsheetId]]

\* readSheet(spreadsheetId, range = ''): its first request.
readSheetRequest(spreadsheetId, range) ==
    IF ~Falsy(Default(range, ""))
    THEN valuesRequest(spreadsheetId, range)
    ELSE spreadsheetRequest(spreadsheetId)

\* (res.data.files || []).map(f => ({id, name, ..., owner}))
fileRows(data) ==
    LET files == IF "files" \in DOMAIN data THEN data.files ELSE <<>>
    IN  [i \in 1..Len(files) |->
            [id |-> files[i].id, name |-> files[i].name,
             mimeType |-> files[i].mimeType,
             modifiedTime |-> files[i].modifiedTime,
             webViewLink |-> files[i].webViewLink,
             owner |-> IF "owners" \in DOMAIN files[i] /\ Len(files[i].owners) > 0
                       THEN FieldOr(files[i].owners[1], "emailAddress", "")
                       ELSE ""]]

\* meta.data.sheets.map(s => s.properties.title)
sheetNames(meta) == [i \in 1..Len(meta.sheets) |-> meta.sheets[i].properties.title]

\* res.data.values || []
valuesOf(data) == IF "values" \in DOMAIN data THEN data.values ELSE <<>>

sheetInfoRows(data) ==
    [title |-> data.properties.title,
     locale |-> data.properties.locale,
     timeZone |-> data.properties.timeZone,
     spreadsheetUrl |-> data.spreadsheetUrl,
     sheets |-> [i \in 1..Len(data.sheets) |->
        LET p == data.sheets[i].properties
        IN  [title |-> p.title, sheetId |-> p.sheetId, index |-> p.index,
             rowCount |-> IF "gridProperties" \in DOMAIN p
                          THEN Field(p.gridProperties, "rowCount") ELSE Undefined,
             columnCount |-> IF "gridProperties" \in DOMAIN p
                             THEN Field(p.gridProperties, "columnCount")
                             ELSE Undefined]]]

(* The remote Drive and Sheets services: a fake with one spreadsheet. *)

FileListing ==
    [files |-> <<[id |-> "id1", name |-> "Budget",
                  mimeType |-> "application/vnd.google-apps.spreadsheet",
                  modifiedTime |-> "2026-02-09T10:00:00Z",
                  webViewLink |-> "https://docs/id1",
                  owners |-> <<[emailAddress |-> "me@example.com"]>>],
                 [id |-> "f2", name |-> "Notes",
                  mimeType |-> "application/vnd.google-apps.document",
                  modifiedTime |-> "2026-02-08T10:00:00Z",
                  webViewLink |-> "https://docs/f2"]>>]

Spreadsheets ==
    "id1" :> [spreadsheetId |-> "id1",
              spreadsheetUrl |-> "https://docs/id1",
              properties |-> [title |-> "Budget", locale |-> "en_US",
                              timeZone |-> "Europe/Paris"],
              sheets |-> <<[properties |-> [title |-> "Sheet1", sheetId |-> "0",
                                            index |-> "0",
                                            gridProperties |-> [rowCount |-> "100",
                                                                columnCount |-> "26"]]],
                           [properties |-> [title |-> "id1", sheetId |-> "7",
                                            index |-> "1"]]>>]

\* The ranges of the spreadsheet the fake can read, with what it returns.
RangeValues ==
    ("Sheet1" :> [range |-> "Sheet1!A1:Z100", majorDimension |-> "ROWS",
                  values |-> <<<<"item", "cost">>, <<"desk", "120">>>>])
 @@ ("id1" :> [range |-> "id1!A1:Z100", majorDimension |-> "ROWS"])

SheetsServable(req) ==
    CASE req.method = "drive.files.list" -> TRUE
      [] req.method = "sheets.spreadsheets.get" ->
            req.params.spreadsheetId \in DOMAIN Spreadsheets
      [] OTHER ->
            /\ req.params.spreadsheetId \in DOMAIN Spreadsheets
            /\ req.params.range \in DOMAIN RangeValues

SheetsResponse(req) ==
    CASE req.method = "drive.files.list" -> FileListing
      [] req.method = "sheets.spreadsheets.get" ->
            Spreadsheets[req.params.spreadsheetId]
      [] OTHER -> RangeValues[req.params.range]

SheetsHelp ==
    <<"Sheets & Drive Helper - Read Only",
      "Commands: files, read, info, search",
      "Examples:",
      "  node sheets.js files 10",
      "  node sheets.js search \"budget\"",
      "  node sheets.js info 1BxiMVs0XRA5nFMdKvBdBZjgmUUqptlbs74OgVE2upms",
      "  node sheets.js read 1BxiMVs0XRA5nFMdKvBdBZjgmUUqptlbs74OgVE2upms",
      "  node sheets.js read 1BxiMVs0XRA5nFMdKvBdBZjgmUUqptlbs74OgVE2upms \"Sheet1!A1:D10\"">>

\* The default case of the sheets switch.
sheetsDefault == Die(SheetsHelp)

\* The switch of the sheets CLI, up to the first await of the chosen handler.
SheetsMain ==
    /\ pc = "main" /\ tool = "sheets"
    /\ \/ /\ command = "files"
          /\ Call(listFilesRequest(Arg(1), JoinRest(args)), "listFiles")
       \/ /\ command = "read"
          /\ IF Falsy(Arg(1))
             THEN Die(<<"Usage: sheets.js read <spreadsheetId> [range]",
                        "  range example: \"Sheet1!A1:D10\"">>)
             ELSE Call(readSheetRequest(Arg(1), Arg(2)),
                       IF ~Falsy(Default(Arg(2), "")) THEN "readSheet.range"
                       ELSE "readSheet.meta")
       \/ /\ command = "info"
          /\ IF Falsy(Arg(1))
             THEN Die(<<"Usage: sheets.js info <spreadsheetId>">>)
             ELSE Call(spreadsheetRequest(Arg(1)), "sheetInfo")
       \/ /\ command = "search"
          /\ IF Falsy(Arg(1))
             THEN Die(<<"Usage: sheets.js search <query> [maxResults]">>)
             ELSE Call(searchFilesRequest(Arg(1), Arg(2)), "searchFiles")
       \/ /\ command \notin SheetsCommands
          /\ sheetsDefault
    /\ UNCHANGED <<Frame, Remote, FanOut, Settled>>

\* The awaited call of a sheets handler resolves and the handler runs on.
SheetsResolve ==
    /\ pc = "await" /\ tool = "sheets"
    /\ SheetsServable(LastCall)
    /\ Fulfil
    /\ LET data == SheetsResponse(LastCall)
       IN  \/ /\ cont \in {"listFiles", "searchFiles"}
              /\ PrintAndEnd(<<Json(fileRows(data))>>)
              /\ UNCHANGED held
           \/ /\ cont = "readSheet.range"
              /\ PrintAndEnd(<<Json([range |-> data.range, values |-> valuesOf(data)])>>)
              /\ UNCHANGED held
           \/ /\ cont = "readSheet.meta"
              /\ held' = data
              /\ Call(valuesRequest(LastCall.params.spreadsheetId, sheetNames(data)[1]),
                      "readSheet.first")
           \/ /\ cont = "readSheet.first"
              /\ PrintAndEnd(<<Json([spreadsheetTitle |-> held.properties.title,
                                     sheet |-> sheetNames(held)[1],
                                     availableSheets |-> sheetNames(held),
                                     range |-> data.range,
                                     values |-> valuesOf(data)])>>)
              /\ UNCHANGED held
           \/ /\ cont = "sheetInfo"
              /\ PrintAndEnd(<<Json(sheetInfoRows(data))>>)
              /\ UNCHANGED held
    /\ UNCHANGED <<Frame, Remote, refs, pending, results>>

-----------------------------------------------------------------------------
(* google-auth.js and the life of one process *)

\* A credential check that only notices absent variables, not empty ones.
Mutant_MissingCredentialsAbsentOnly(e) ==
    \E k \in DOMAIN e : e[k] = Undefined

\* The condition under which getAuth throws.
MissingCredentials(e) ==
    \/ Falsy(e.GOOGLE_CLIENT_ID)
    \/ Falsy(e.GOOGLE_CLIENT_SECRET)
    \/ Falsy(e.GOOGLE_REFRESH_TOKEN)

MissingCredentialsMessage ==
    "Missing Google OAuth credentials. Set GOOGLE_CLIENT_ID, GOOGLE_CLIENT_SECRET, and GOOGLE_REFRESH_TOKEN environment variables."

Init ==
    /\ tool \in Tools
    /\ env \in Environments
    /\ command \in Tokens
    /\ args \in ArgLists
    /\ pc = "load"
    /\ cont = "none"
    /\ calls = <<>>
    /\ fulfilled = {}
    /\ rejected = {}
    /\ refs = <<>>
    /\ pending = {}
    /\ results = <<>>
    /\ stdout = <<>>
    /\ stderr = <<>>
    /\ exitCode = 0
    /\ store = InitialStore
    /\ input = NoInput
    /\ reads = <<>>
    /\ clock = NoClock
    /\ held = EmptyObj

\* The top of the script: `const auth = getAuth()`.  The throw of getAuth is
\* outside any try block, so node reports the uncaught error on standard
\* error and exits with status 1.
LoadModule ==
    /\ pc = "load"
    /\ IF MissingCredentials(env)
       THEN Die(<<"Uncaught Error: " \o MissingCredentialsMessage>>)
       ELSE /\ pc' = "main"
            /\ UNCHANGED <<calls, cont, stdout, stderr, exitCode>>
    /\ UNCHANGED <<Frame, Remote, FanOut, Settled>>

\* A catch handler that tries the failed request once more before giving up.
Mutant_RejectRetry ==
    /\ pc = "await"
    /\ rejected' = rejected \cup {Len(calls)}
    /\ IF Len(calls) < 2
       THEN /\ calls' = Append(calls, LastCall)
            /\ UNCHANGED <<pc, cont, stdout, stderr, exitCode>>
       ELSE Catch("remote call failed")
    /\ UNCHANGED <<Frame, Remote, FanOut, fulfilled>>

\* The awaited call rejects (network, auth, 404, ...): the handler throws at
\* its await and the CLI's catch handler runs.
Reject ==
    /\ pc = "await"
    /\ rejected' = rejected \cup {Len(calls)}
    /\ Catch("remote call failed")
    /\ UNCHANGED <<Frame, Remote, FanOut, fulfilled>>

Next ==
    \/ LoadModule
    \/ GmailMain
    \/ GmailResolve
    \/ DetailResolve
    \/ DetailReject
    \/ CalendarMain
    \/ CalendarResolve
    \/ SheetsMain
    \/ SheetsResolve
    \/ Reject

Spec == Init /\ [][Next]_vars

-----------------------------------------------------------------------------
(* The normalizers on their own: formatEvent and formatMessage applied to   *)
(* raw objects of every shape, and then once more to their own result.      *)

OptionalFields ==
    {"attendees", "description", "location", "hangoutLink", "recurringEventId"}

RawAttendees ==
    <<[email |-> "bob@example.com", responseStatus |-> "accepted",
       displayName |-> "Bob"],
      [email |-> "eve@example.com", responseStatus |-> "needsAction"]>>

\* The shapes of ev.start / ev.end: no object, an object with neither field,
\* an all-day date, a timed instant, and both.
InstantShapes == {"absent", "neither", "date", "dateTime", "both"}

InstantObject(shape, day) ==
    CASE shape = "neither" -> [timeZone |-> "UTC"]
      [] shape = "date" -> [date |-> "2026-02-" \o day]
      [] shape = "dateTime" ->
            [dateTime |-> "2026-02-" \o day \o "T09:00:00-08:00", timeZone |-> "UTC"]
      [] shape = "both" ->
            [dateTime |-> "2026-02-" \o day \o "T09:00:00-08:00",
             date |-> "2026-02-" \o day]

\* {name: value} when the condition holds, {} otherwise.
Only(cond, obj) == IF cond THEN obj ELSE EmptyObj

\* A raw event of the service with the optional fields `present`, start and
\* end of the given shapes, and a creator or none.
RawEvent(present, startShape, endShape, hasCreator) ==
    [id |-> "ev9", kind |-> "calendar#event", etag |-> "e-9",
     summary |-> "Planning", status |-> "confirmed", htmlLink |-> "https://cal/ev9"]
    @@ Only("attendees" \in present, [attendees |-> RawAttendees])
    @@ Only("description" \in present, [description |-> "Quarterly"])
    @@ Only("location" \in present, [location |-> "Room 4"])
    @@ Only("hangoutLink" \in present, [hangoutLink |-> "https://meet/xyz"])
    @@ Only("recurringEventId" \in present, [recurringEventId |-> "series9"])
    @@ Only(startShape # "absent", [start |-> InstantObject(startShape, "10")])
    @@ Only(endShape # "absent", [end |-> InstantObject(endShape, "11")])
    @@ Only(hasCreator, [creator |-> [email |-> "me@example.com", self |-> "true"]])

RawEvents ==
    {RawEvent(present, s, e, c) :
        present \in SUBSET OptionalFields, s \in InstantShapes,
        e \in InstantShapes, c \in BOOLEAN}

RawMessages == UNION {FullMessages(id) : id \in DOMAIN MailBox}

FormatInit ==
    /\ \/ tool = "calendar" /\ held \in RawEvents
       \/ tool = "gmail" /\ held \in RawMessages
    /\ env = [GOOGLE_CLIENT_ID |-> "tok", GOOGLE_CLIENT_SECRET |-> "tok",
              GOOGLE_REFRESH_TOKEN |-> "tok"]
    /\ command = Undefined
    /\ args = <<>>
    /\ pc = "raw"
    /\ cont = "none"
    /\ calls = <<>>
    /\ fulfilled = {}
    /\ rejected = {}
    /\ refs = <<>>
    /\ pending = {}
    /\ results = <<>>
    /\ stdout = <<>>
    /\ stderr = <<>>
    /\ exitCode = 0
    /\ store = InitialStore
    /\ input = NoInput
    /\ reads = <<>>
    /\ clock = NoClock

\* console.log(JSON.stringify(formatEvent(ev))) on the raw event.
NormalizeEvent ==
    /\ pc = "raw" /\ tool = "calendar"
    /\ stdout' = <<Json(formatEvent(held))>>
    /\ pc' = "normalized"
    /\ UNCHANGED <<Frame, Remote, FanOut, Settled, calls, cont, stderr, exitCode>>

\* The same with formatMessage on the raw message.
NormalizeMessage ==
    /\ pc = "raw" /\ tool = "gmail"
    /\ IF formatMessageThrows(held)
       THEN Catch(TypeErrorMessage)
       ELSE /\ stdout' = <<Json(formatMessage(held))>>
            /\ pc' = "normalized"
            /\ UNCHANGED <<calls, cont, stderr, exitCode>>
    /\ UNCHANGED <<Frame, Remote, FanOut, Settled>>

\* The normalizer applied to the projection it produced; a throw ends in the
\* CLI's catch handler.
NormalizeAgain ==
    /\ pc = "normalized"
    /\ LET projection == stdout[1].data
       IN  IF tool = "gmail" /\ formatMessageThrows(projection)
           THEN /\ stderr' = stderr \o <<"Error: " \o TypeErrorMessage>>
                /\ exitCode' = 1
                /\ UNCHANGED stdout
           ELSE /\ stdout' = Append(stdout,
                                    Json(IF tool = "calendar"
                                         THEN formatEvent(projection)
                                         ELSE formatMessage(projection)))
                /\ UNCHANGED <<stderr, exitCode>>
    /\ pc' = "renormalized"
    /\ UNCHANGED <<Frame, Remote, FanOut, Settled, calls, cont>>

FormatNext == NormalizeEvent \/ NormalizeMessage \/ NormalizeAgain

FormatSpec == FormatInit /\ [][FormatNext]_vars

-----------------------------------------------------------------------------
(* Properties *)

\* The process has terminated.
Exited == pc = "exited"

\* The recognized operations and the usage listing of the running tool.
CommandsOf(t) ==
    CASE t = "gmail" -> GmailCommands
      [] t = "calendar" -> CalendarCommands
      [] OTHER -> SheetsCommands

HelpOf(t) ==
    CASE t = "gmail" -> GmailHelp
      [] t = "calendar" -> CalendarHelp
      [] OTHER -> SheetsHelp

C1_CalendarMethods ==
    {"calendar.events.list", "calendar.events.get", "calendar.events.insert",
     "calendar.events.quickAdd", "calendar.events.patch",
     "calendar.calendarList.list"}

\* C1: in the calendar tool, whatever the command token and the arguments, no
\* remote delete request is ever issued: every request issued is events.list,
\* events.get, events.insert, events.quickAdd, events.patch or
\* calendarList.list.
C1_NoDeleteRequest ==
    tool = "calendar" =>
        \A i \in 1..Len(calls) : calls[i].method \in C1_CalendarMethods

\* C1 witness: the calendar tool ran to its end on `delete id1` and issued
\* nothing.
C1_DeleteTokenTried ==
    /\ tool = "calendar" /\ command = "delete" /\ Arg(1) = "id1"
    /\ Exited /\ calls = <<>> /\ stderr = CalendarHelp

C2_ReadMethods ==
    {"gmail.users.messages.list", "gmail.users.messages.get",
     "gmail.users.labels.list", "gmail.users.threads.list",
     "gmail.users.threads.get", "drive.files.list", "sheets.spreadsheets.get",
     "sheets.spreadsheets.values.get", "calendar.events.list",
     "calendar.events.get", "calendar.calendarList.list"}

\* The requests issued so far that are not reads.
C2_Mutating == {i \in 1..Len(calls) : calls[i].method \notin C2_ReadMethods}

C2_WriteOf(cmd) ==
    CASE cmd = "create" -> "calendar.events.insert"
      [] cmd = "quick" -> "calendar.events.quickAdd"
      [] cmd = "update" -> "calendar.events.patch"
      [] OTHER -> "none"

\* C2: the mail and file-store tools issue read requests only; in the
\* calendar tool only create, quick and update issue a mutating request, at
\* most one per invocation (insert, quickAdd, patch respectively, never issued
\* a second time), and every other calendar command issues reads only.
C2_ReadsAndOneWrite ==
    /\ tool \in {"gmail", "sheets"} => C2_Mutating = {}
    /\ tool = "calendar" =>
          /\ Cardinality(C2_Mutating) <= 1
          /\ \A i \in C2_Mutating : calls[i].method = C2_WriteOf(command)

\* C2 witness: `calendar create` issued its insert, the insert failed, and the
\* process ended with that single request.
C2_FailedWriteNotRetried ==
    /\ tool = "calendar" /\ command = "create"
    /\ Exited /\ exitCode = 1 /\ rejected = {1}
    /\ Len(calls) = 1 /\ calls[1].method = "calendar.events.insert"

\* What the dispatcher does with an unknown command token.
C3_UsageShown ==
    /\ stderr = HelpOf(tool)
    /\ exitCode # 0
    /\ calls = <<>>
    /\ stdout = <<>>

\* C3 as stated: for every command token that is not a recognized operation of
\* the tool (the absent token included), the process writes the tool's usage
\* listing to standard error, ends with a non-zero status and issues no
\* remote request.
C3_UnknownCommandUsageAlways ==
    (Exited /\ command \notin CommandsOf(tool)) => C3_UsageShown

\* C3 amended: the same, when the three credentials are present (without them
\* the process ends in getAuth, before the dispatcher, with the
\* missing-credentials error, a non-zero status and no remote request).
C3_UnknownCommandUsage ==
    /\ (command \notin CommandsOf(tool) /\ pc # "load") =>
          /\ ~MissingCredentials(env) => (pc = "main" \/ (Exited /\ C3_UsageShown))
          /\ MissingCredentials(env) =>
                /\ Exited /\ exitCode # 0 /\ calls = <<>> /\ stdout = <<>>
                /\ stderr = <<"Uncaught Error: " \o MissingCredentialsMessage>>

\* C3 witness: the sheets tool, with credentials, ran without a command token.
C3_AbsentTokenTried ==
    /\ tool = "sheets" /\ command = Undefined /\ ~MissingCredentials(env)
    /\ Exited /\ stderr = SheetsHelp /\ exitCode = 1


\* The number of leading arguments the dispatch table requires of a command.
C4_Required(t, cmd) ==
    CASE t = "gmail" /\ cmd \in {"read", "search", "threads"} -> 1
      [] t = "calendar" /\ cmd \in {"get", "search", "create", "quick"} -> 1
      [] t = "calendar" /\ cmd = "update" -> 2
      [] t = "sheets" /\ cmd \in {"read", "info", "search"} -> 1
      [] OTHER -> 0

\* A required argument was not given.
C4_ArgumentMissing == \E i \in 1..C4_Required(tool, command) : Arg(i) = Undefined

\* The first line on standard error is the usage message of the command.
C4_UsageOfCommand ==
    LET prefix == "Usage: " \o tool \o ".js " \o command
    IN  /\ Len(stderr) >= 1
        /\ Len(stderr[1]) >= Len(prefix)
        /\ SubSeq(stderr[1], 1, Len(prefix)) = prefix

\* C4: with the credentials present, an operation of the dispatch table
\* invoked with a required argument missing never issues a remote request,
\* and ends with that operation's usage message on standard error and a
\* non-zero status.
C4_MissingArgumentRejected ==
    (~MissingCredentials(env) /\ C4_ArgumentMissing) =>
        /\ calls = <<>>
        /\ Exited => (exitCode # 0 /\ stdout = <<>> /\ C4_UsageOfCommand)

\* The fan-out of mail list, mail search or thread listing ended well.
C5_FanOutPrinted ==
    /\ tool = "gmail" /\ cont \in {"listMessages", "listThreads"}
    /\ Exited /\ exitCode = 0 /\ Len(refs) > 0

\* C5: when the enumeration returned the references r1..rN and every detail
\* fetch resolved, in whatever order, the one array printed has exactly N
\* elements and its i-th element is the summary of ri.
C5_OutputInEnumerationOrder ==
    C5_FanOutPrinted =>
        /\ Len(stdout) = 1 /\ stdout[1].kind = "json"
        /\ Len(stdout[1].data) = Len(refs)
        /\ \A i \in 1..Len(refs) :
              /\ stdout[1].data[i] = DetailSummary(i)
              /\ refs[i].id = IF cont = "listMessages"
                               THEN stdout[1].data[i].id
                               ELSE stdout[1].data[i].threadId

\* C5 witness: three references, the fetch of the third resolved first, and
\* the first and third are different items.
C5_LastResolvedFirst ==
    /\ C5_FanOutPrinted
    /\ Len(refs) = 3 /\ results[1].index = 3 /\ results[3].index = 1
    /\ refs[1].id # refs[3].id

\* C6: once any remote call of the invocation has failed (one of the
\* concurrent detail fetches included), the process has ended with status 1
\* and standard output is empty.
C6_FailureLeavesNoOutput ==
    rejected # {} => (Exited /\ exitCode = 1 /\ stdout = <<>>)

\* C6 witness: a detail fetch failed after another had succeeded and while a
\* third was still pending.
C6_FailedAmongOthers ==
    /\ rejected # {} /\ Exited
    /\ Len(results) >= 1 /\ pending # {}
    /\ stdout = <<>> /\ exitCode = 1

\* The invocation is one of the failures the claim lists.
C7_Failure ==
    \/ command \notin CommandsOf(tool)
    \/ C4_ArgumentMissing
    \/ input.kind \in {"malformed", "missing"}
    \/ MissingCredentials(env)
    \/ rejected # {}

\* C7: a terminated invocation either has status 0, output on standard output
\* and only successful remote calls, or a non-zero status and a message on
\* standard error; and after a usage error, a malformed payload, a missing
\* credential or a failed remote call the status is never 0.
C7_TwoOutcomes ==
    Exited =>
        /\ \/ /\ exitCode = 0 /\ stdout # <<>>
              /\ rejected = {} /\ fulfilled = 1..Len(calls)
           \/ exitCode # 0 /\ stderr # <<>>
        /\ C7_Failure => exitCode # 0

\* The first Sunday on or after the date d.
C8_FirstSunday(d) ==
    LET k == CHOOSE j \in 0..6 : getDay(setDate(d, getDate(d) + j)) = 0
    IN  setDate(d, getDate(d) + k)

\* C8: the week listing ends at 23:59:59.999 of the first Sunday on or after
\* today, which is today itself when today is a Sunday.
C8_WeekEndsFirstSunday ==
    (tool = "calendar" /\ command = "week" /\ Len(calls) >= 1) =>
        calls[1].params.timeMax = Instant(C8_FirstSunday(clock), "23:59:59.999")

\* The update command got as far as its request.
C9_UpdateIssued == tool = "calendar" /\ command = "update" /\ Len(calls) >= 1

\* The field f of the event, or "absent".
C9_FieldOf(ev, f) == IF f \in DOMAIN ev THEN <<"is", ev[f]>> ELSE <<"absent">>

\* C9: calendar update issues one request, a patch for the given event id on
\* the selected calendar whose body is the parsed payload; once the store has
\* served it, every other event of the store and every top-level field of the
\* event that the payload does not contain are as they were.
C9_UpdateIsMergePatch ==
    C9_UpdateIssued =>
        /\ Len(calls) = 1
        /\ calls[1].method = "calendar.events.patch"
        /\ calls[1].params.calendarId = Default(Arg(3), "primary")
        /\ calls[1].params.eventId = Arg(1)
        /\ input.kind = "json" /\ calls[1].params.requestBody = input.json
        /\ DOMAIN store = DOMAIN InitialStore
        /\ \A c \in DOMAIN store :
              /\ Len(store[c]) = Len(InitialStore[c])
              /\ \A i \in 1..Len(store[c]) :
                    IF c = calls[1].params.calendarId
                       /\ InitialStore[c][i].id = Arg(1)
                    THEN \A f \in (DOMAIN InitialStore[c][i] \cup DOMAIN store[c][i])
                                    \ DOMAIN input.json :
                            C9_FieldOf(store[c][i], f)
                                = C9_FieldOf(InitialStore[c][i], f)
                    ELSE store[c][i] = InitialStore[c][i]

\* C9 witness: an update whose payload holds only a summary was served and
\* changed the store.
C9_SummaryOnlyUpdateServed ==
    /\ C9_UpdateIssued /\ Exited /\ exitCode = 0
    /\ DOMAIN input.json = {"summary"}
    /\ store # InitialStore
    /\ store["primary"][1].summary = "X"
    /\ store["primary"][1].location = "Zoom"

RECURSIVE C10_HasPlain(_)
RECURSIVE C10_PlainTexts(_)

\* Some part of the tree is text/plain with non-empty data.
C10_HasPlain(payload) ==
    \/ payload.mimeType = "text/plain" /\ ~Falsy(BodyData(payload))
    \/ /\ "parts" \in DOMAIN payload
       /\ \E i \in 1..Len(payload.parts) : C10_HasPlain(payload.parts[i])

\* The decoded texts of the plain-text parts of the tree.
C10_PlainTexts(payload) ==
    (IF payload.mimeType = "text/plain" /\ ~Falsy(BodyData(payload))
     THEN {decodeBase64Url(BodyData(payload))} ELSE {})
    \cup (IF "parts" \in DOMAIN payload
          THEN UNION {C10_PlainTexts(payload.parts[i]) : i \in 1..Len(payload.parts)}
          ELSE {})

\* C10: the body printed for a message is the decoded text of one of its
\* plain-text parts whenever the payload tree has a text/plain part with
\* data, and is the '[HTML] '-tagged rendering only when it has none.
C10_PlainTextPreferred ==
    (tool = "gmail" /\ command = "read" /\ Exited /\ exitCode = 0) =>
        LET body == stdout[1].data.body
        IN  /\ C10_HasPlain(held.payload) => body \in C10_PlainTexts(held.payload)
            /\ (Len(body) >= 7 /\ SubSeq(body, 1, 7) = "[HTML] ")
                  => ~C10_HasPlain(held.payload)


\* The normalizer has been applied to a raw object and then to its own result.
Renormalized == pc = "renormalized"

\* C11: each normalizer is idempotent: applied to the projection it produced,
\* formatEvent and formatMessage complete without failing and yield that same
\* projection, field by field (start, end and creator included).
C11_NormalizersIdempotent ==
    Renormalized =>
        /\ exitCode = 0 /\ stderr = <<>>
        /\ Len(stdout) = 2
        /\ \A f \in DOMAIN stdout[1].data :
              /\ f \in DOMAIN stdout[2].data
              /\ stdout[2].data[f] = stdout[1].data[f]


\* C12: calendar quick takes an optional calendar after the free text: the
\* quick-add request targets that calendar when it is given, with the free
\* text alone as its text, and targets 'primary' when it is omitted.
C12_QuickTargetsCalendar ==
    (tool = "calendar" /\ command = "quick" /\ Len(calls) >= 1) =>
        /\ calls[1].method = "calendar.events.quickAdd"
        /\ calls[1].params.calendarId = Default(Arg(2), "primary")
        /\ Arg(2) # Undefined => calls[1].params.text = Arg(1)


\* C13: when the payload of calendar create or update, read from a file or
\* from standard input, is not valid JSON, no insert or patch request is
\* issued, standard output stays empty, the payload is read once only, and
\* the process has ended with status 1.
C13_MalformedPayloadFatal ==
    (tool = "calendar" /\ command \in {"create", "update"}
        /\ input.kind = "malformed") =>
        /\ calls = <<>> /\ store = InitialStore
        /\ stdout = <<>>
        /\ Len(reads) = 1
        /\ Exited /\ exitCode = 1
        /\ stderr = <<"Error: " \o PayloadError(input)>>

\* C13 witness: calendar update read a malformed payload from standard input
\* and ended.
C13_MalformedStdinTried ==
    /\ tool = "calendar" /\ command = "update" /\ Arg(2) = "-"
    /\ reads = <<"stdin">> /\ input.kind = "malformed"
    /\ Exited /\ exitCode = 1 /\ calls = <<>>


\* One of the three credential values is absent or empty.
C14_CredentialMissing == \E k \in DOMAIN env : env[k] \in {Undefined, ""}

\* C14: when a credential value is absent or empty, whatever the command token
\* and the arguments, the command is never dispatched and no remote request
\* is issued: the process goes from loading straight to its end, with the
\* missing-credentials error on standard error and a non-zero status.
C14_MissingCredentialFailsFirst ==
    C14_CredentialMissing =>
        /\ pc \in {"load", "exited"}
        /\ calls = <<>> /\ stdout = <<>> /\ reads = <<>>
        /\ Exited =>
              /\ exitCode # 0
              /\ stderr = <<"Uncaught Error: " \o MissingCredentialsMessage>>

\* C14 witness: only the refresh token is empty, and the mail tool was run as
\* `read` without its required argument.
C14_EmptyTokenMissingArgument ==
    /\ env.GOOGLE_REFRESH_TOKEN = ""
    /\ env.GOOGLE_CLIENT_ID = "tok" /\ env.GOOGLE_CLIENT_SECRET = "tok"
    /\ tool = "gmail" /\ command = "read" /\ args = <<>>
    /\ Exited /\ exitCode = 1
    /\ stderr = <<"Uncaught Error: " \o MissingCredentialsMessage>>


\* formatEvent has been applied to the raw event in `held`; its projection is
\* the first item printed.
EventNormalized == tool = "calendar" /\ pc \in {"normalized", "renormalized"}

\* What the claim expects for start / end of the raw event.
C15_Expected(ev, f) ==
    IF f \notin DOMAIN ev THEN ""
    ELSE IF "dateTime" \in DOMAIN ev[f] THEN ev[f].dateTime
    ELSE IF "date" \in DOMAIN ev[f] THEN ev[f].date
    ELSE ""

\* C15: formatEvent sets start, and likewise end, to the timed instant
\* (dateTime) when the raw event has one, to the all-day date when it has only
\* that, and to the empty string when the object or both fields are absent; a
\* present dateTime is never overridden by the date.
C15_InstantPrefersTimed ==
    EventNormalized =>
        /\ stdout[1].data.start = C15_Expected(held, "start")
        /\ stdout[1].data["end"] = C15_Expected(held, "end")

\* C15 witness: a raw event whose start has both fields and whose end has the
\* all-day date only was normalized.
C15_BothAndDateOnly ==
    /\ EventNormalized
    /\ "start" \in DOMAIN held /\ DOMAIN held.start = {"dateTime", "date"}
    /\ "end" \in DOMAIN held /\ DOMAIN held["end"] = {"date"}
    /\ stdout[1].data.start = held.start.dateTime
    /\ stdout[1].data["end"] = held["end"].date

C16_StringFields == OptionalFields \ {"attendees"}

\* The absent optional fields get their substitute and the present string
\* fields are carried over.
C16_Substituted ==
    /\ exitCode = 0 /\ stderr = <<>>
    /\ \A f \in C16_StringFields :
          stdout[1].data[f] = IF f \in DOMAIN held THEN held[f] ELSE ""
    /\ "attendees" \notin DOMAIN held => stdout[1].data.attendees = <<>>

\* C16 as stated: for a raw event lacking any subset of attendees,
\* description, location, hangoutLink and recurringEventId, formatEvent
\* completes, yields the empty string / the empty sequence for the absent
\* ones, and carries every present one over unchanged.
C16_PresentFieldsUnchanged ==
    EventNormalized =>
        /\ C16_Substituted
        /\ "attendees" \in DOMAIN held => stdout[1].data.attendees = held.attendees

\* C16 amended: the same, where present attendees are carried over as their
\* email and responseStatus, in order, and nothing else of an attendee.
C16_OptionalFieldsTolerated ==
    EventNormalized =>
        /\ C16_Substituted
        /\ "attendees" \in DOMAIN held =>
              /\ Len(stdout[1].data.attendees) = Len(held.attendees)
              /\ \A i \in 1..Len(held.attendees) :
                    stdout[1].data.attendees[i]
                        = [email |-> Field(held.attendees[i], "email"),
                           responseStatus |->
                               Field(held.attendees[i], "responseStatus")]

\* C16 witness: a raw event with attendees and none of the other optional
\* fields was normalized.
C16_OnlyAttendeesPresent ==
    /\ EventNormalized
    /\ DOMAIN held \cap OptionalFields = {"attendees"}
    /\ stdout[1].data.description = "" /\ stdout[1].data.recurringEventId = ""
    /\ Len(stdout[1].data.attendees) = 2


\* Mail list or mail search printed its summaries.
C17_SummariesPrinted ==
    /\ tool = "gmail" /\ cont = "listMessages"
    /\ Exited /\ exitCode = 0 /\ Len(refs) > 0

\* C17: every element printed by mail list and mail search has exactly the
\* fields id, threadId, from, subject, date and snippet, with threadId the
\* thread id of the enumerated message.
C17_SummaryFields ==
    C17_SummariesPrinted =>
        \A i \in 1..Len(stdout[1].data) :
            /\ DOMAIN stdout[1].data[i]
                  = {"id", "threadId", "from", "subject", "date", "snippet"}
            /\ stdout[1].data[i].threadId = refs[i].threadId


\* The calls of the N detail requests of the fan-out.
C18_DetailCalls == {DetailCall(i) : i \in 1..Len(refs)}

\* C18: in mail list, search and threads with N enumerated references, all N
\* detail requests have been issued, one after the enumeration call and none
\* waiting for a response, before any detail response is consumed; and
\* something is printed only after all N responses have resolved.
C18_IssueAllThenJoin ==
    (tool = "gmail" /\ cont \in {"listMessages", "listThreads"}) =>
        /\ (pc = "fanout" \/ results # <<>>) =>
              /\ Len(calls) = 1 + Len(refs)
              /\ C18_DetailCalls = 2..Len(calls)
        /\ pc = "fanout" => stdout = <<>> /\ pending # {}
        /\ (stdout # <<>> /\ Len(refs) > 0) =>
              /\ pending = {}
              /\ {results[k].index : k \in 1..Len(results)} = 1..Len(refs)
              /\ C18_DetailCalls \subseteq fulfilled

\* C18 witness: three references were enumerated and all three detail
\* requests are in flight, no response consumed yet.
C18_AllInFlight ==
    /\ tool = "gmail" /\ pc = "fanout"
    /\ Len(refs) = 3 /\ Len(calls) = 4
    /\ results = <<>> /\ pending = {1, 2, 3}
    /\ fulfilled = {1}


\* A mail list, search or thread listing is under way or over.
C19_Listing == tool = "gmail" /\ cont \in {"listMessages", "listThreads"}

C19_EnumerationMethod ==
    IF cont = "listMessages" THEN "gmail.users.messages.list"
    ELSE "gmail.users.threads.list"

C19_DetailMethod ==
    IF cont = "listMessages" THEN "gmail.users.messages.get"
    ELSE "gmail.users.threads.get"

C19_NothingFound ==
    IF cont = "listMessages" THEN "No messages found." ELSE "No threads found."

\* C19: a mail list, search or thread listing issues one enumeration call,
\* which has completed before any detail fetch is issued; a successful one
\* has issued after it exactly one detail fetch per enumerated reference, for
\* that reference's id, and nothing else; and when nothing was enumerated it
\* issues no detail fetch, prints the plain 'No messages found.' / 'No threads
\* found.' line instead of a JSON array, and ends with status 0.
C19_EnumerateThenFetchEach ==
    C19_Listing =>
        /\ calls[1].method = C19_EnumerationMethod
        /\ Len(calls) > 1 => 1 \in fulfilled
        /\ (Exited /\ exitCode = 0) =>
              /\ Len(calls) = 1 + Len(refs)
              /\ fulfilled = 1..Len(calls)
              /\ \A i \in 1..Len(refs) :
                    /\ calls[1 + i].method = C19_DetailMethod
                    /\ calls[1 + i].params.id = refs[i].id
              /\ Len(stdout) = 1
              /\ IF Len(refs) = 0
                 THEN stdout[1] = Text(C19_NothingFound)
                 ELSE stdout[1].kind = "json"
        /\ (Exited /\ fulfilled = {1} /\ rejected = {}) =>
              /\ exitCode = 0
              /\ stdout = <<Text(C19_NothingFound)>>

\* C19 witness: a mail search enumerated nothing and ended.
C19_EmptySearch ==
    /\ tool = "gmail" /\ command = "search" /\ Arg(1) = "id1"
    /\ Exited /\ exitCode = 0
    /\ Len(calls) = 1 /\ fulfilled = {1} /\ refs = <<>>
    /\ stdout = <<Text("No messages found.")>>

====
